---------------------------- MODULE Spec2Model ----------------------------
(***************************************************************************)
(* Session protocol engine of the WebSocket audio bridge.                  *)
(*                                                                         *)
(*   live mode      src/websokect/ws_audio_server.py                       *)
(*   buffered mode  src/websokect/ws_buffer_test.py                        *)
(*                                                                         *)
(* Both programs run on one asyncio event loop.  A coroutine runs without  *)
(* interruption from one suspension point (an await that really suspends)  *)
(* to the next, so every action below is one such run of one task.         *)
(* Blocking device I/O is handed to a worker thread (asyncio.to_thread);   *)
(* the thread is a process of its own, which a task cancellation does not  *)
(* stop.  Task.cancel() only requests the cancellation: the task sees the  *)
(* CancelledError the next time the event loop runs it.  The event loop    *)
(* runs ready tasks in the order in which they became ready, and recv of   *)
(* the connection does not suspend while received messages are queued.     *)
(*                                                                         *)
(* Text payloads are sequences of character codes (ASCII), binary payloads *)
(* are sequences of bytes.                                                 *)
(***************************************************************************)
EXTENDS Integers, Sequences, FiniteSets, TLC

VARIABLES
    \* ---- the connection (both modes)
    conn,           \* "open" | "closed"
    inbox,          \* messages of the peer not yet consumed by the receiving loop
    toPeer,         \* messages sent on the connection by the engine, in send order
    peerSent,       \* number of messages the peer has sent
    \* ---- live mode: audio_handler
    hPc,            \* "start" | "wait" | "done"
    inp, outp,      \* "none" | "open" | "closed"
    inpCloses, outpCloses,  \* number of close() calls on each endpoint
    \* ---- live mode: alsa_to_websocket (task_read) and its worker thread
    rPc,            \* "init" | "reading" | "done"
    rCancel,        \* cancellation requested, not yet delivered
    rdThread,       \* "idle" | "busy" | "pos" | "zero" | "neg" | "exc"
    rdData,         \* data of the last read
    reads,          \* number of reads the capture device has answered
    \* ---- live mode: websocket_to_alsa (task_write) and its worker thread
    wPc,            \* "init" | "recv" | "write" | "done"
    wCancel,
    wrThread,       \* "idle" | "busy" | "ok" | "exc"
    curMsg,         \* the payload handed to outp.write
    played,         \* payloads written to the playback sink, in order
    received,       \* history: the messages the loop has received, in order
    dupStarts,      \* history: MEDIA_START* texts received while an answer
                    \* task was pending
    \* ---- live mode: send_answer_after_delay (answer_task)
    aPc,            \* "none" | "sleep" | "ready" | "sent" | "cancelled" | "failed"
    aCancel,
    timerLeft,      \* time left of asyncio.sleep(delay)
    sinceFirst,     \* history: time passed since the first MEDIA_START (-1: none)
    answerTasks,    \* history: number of answer tasks created
    \* ---- buffered mode: audio_handler, handle_incoming, send_audio_file
    bhPc,           \* "start" | "wait" | "done"
    can_send_event, \* the asyncio.Event: TRUE when set
    brPc,           \* "recv" | "done"
    brCancel,
    bsPc,           \* "init" | "loop" | "blocked" | "woken" | "done"
    bsCancel,
    source,         \* the bytes of AUDIO_FILE
    srcExists,      \* whether AUDIO_FILE can be opened
    fpos,           \* the file position
    CHUNK_SIZE,     \* bytes per read (64000 in the source; any size here)
    wokenBy,        \* history: what last released the sender from wait():
                    \* "none" | "xon" | "teardown"
    \* ---- two concurrent sessions of one server (functions of the session)
    sMode,          \* "off" | "live" | "buf": which server runs the sessions
    sOpen,          \* whether the session's connection is open
    sOut,           \* messages sent on the session's connection, in order
    sMsgs,          \* number of messages of the session's peer handled
    sEvent,         \* the asyncio.Event objects: TRUE when set
    sRecv,          \* the receiving task: "recv" | "done"
    sSend,          \* the sender: "off" | "init" | "loop" | "blocked" |
                    \* "woken" | "done"
    sPos,           \* the positions of the open file handles
    sAnswer,        \* the answer tasks: "none" | "sleep" | "sent" |
                    \* "failed" | "cancelled"
    sAnswerFor,     \* the session whose connection an answer task sends on
    sStarted,       \* history: the session has received MEDIA_START
    sActor          \* history: the session whose task took the last step

connVars == <<conn, inbox, toPeer, peerSent>>
liveVars == <<hPc, inp, outp, inpCloses, outpCloses, rPc, rCancel, rdThread,
              rdData, reads, wPc, wCancel, wrThread, curMsg, played, received,
              dupStarts, aPc, aCancel, timerLeft, sinceFirst, answerTasks>>
bufVars  == <<bhPc, can_send_event, brPc, brCancel, bsPc, bsCancel, source,
              srcExists, fpos, CHUNK_SIZE, wokenBy>>
hVars    == <<hPc, inp, outp, inpCloses, outpCloses>>
rVars    == <<rPc, rCancel, rdThread, rdData, reads>>
wVars    == <<wPc, wCancel, wrThread, curMsg, played, received, dupStarts>>
aVars    == <<aPc, aCancel, timerLeft, sinceFirst, answerTasks>>
sessVars == <<sMode, sOpen, sOut, sMsgs, sEvent, sRecv, sSend, sPos, sAnswer,
              sAnswerFor, sStarted, sActor>>
vars     == <<connVars, liveVars, bufVars, sessVars>>

---------------------------------------------------------------------------
\* Bounds of the model.
MaxMsgs   == 3
MaxFairMsgs == 2
MaxReads  == 1
MaxSrcLen == 3
MaxChunk  == 2

\* ANSWER_DELAY = 3.0 seconds, in ticks of one second.
ANSWER_DELAY == 3

\* Opaque audio frames, and the bytes of the replayed file.
Payloads == {<<1>>, <<2>>}
Bytes    == {1, 2}

\* Control texts, as character codes.
MEDIA_START == <<77,69,68,73,65,95,83,84,65,82,84>>
MEDIA_XOFF  == <<77,69,68,73,65,95,88,79,70,70>>
MEDIA_XON   == <<77,69,68,73,65,95,88,79,78>>
ANSWER      == <<65,78,83,87,69,82>>
START_MEDIA_BUFFERING == <<83,84,65,82,84,95,77,69,68,73,65,95,66,85,70,70,69,82,73,78,71>>
STOP_MEDIA_BUFFERING  == <<83,84,79,80,95,77,69,68,73,65,95,66,85,70,70,69,82,73,78,71>>

\* Texts the peer sends in a live session: "MEDIA_START;c=1" (the signal with
\* session metadata) and "media_start".
LiveTexts ==
    { MEDIA_START \o <<59,99,61,49>>,
      <<109,101,100,105,97,95,115,116,97,114,116>> }

\* Texts the peer sends in a buffered session: "MEDIA_XOFF", "MEDIA_XON" and
\* "MEDIA_XON\n".
BufTexts ==
    { MEDIA_XOFF, MEDIA_XON, MEDIA_XON \o <<10>> }

Text(t) == [kind |-> "text", data |-> t]
Bin(b)  == [kind |-> "bin",  data |-> b]

\* str.startswith
StartsWith(s, p) == Len(s) >= Len(p) /\ SubSeq(s, 1, Len(p)) = p

IsPrefix(s, t) == Len(s) <= Len(t) /\ SubSeq(t, 1, Len(s)) = s

\* websocket.send on connection state c: the message is appended when the
\* connection is open; on a closed connection send raises ConnectionClosed and
\* nothing is sent.
Send(c, out, m) == IF c = "open" THEN Append(out, m) ELSE out

---------------------------------------------------------------------------
\* The peer and the transport.

PeerSendBinary(frames, max) ==
    /\ conn = "open"
    /\ peerSent < max
    /\ \E b \in frames : inbox' = Append(inbox, Bin(b))
    /\ peerSent' = peerSent + 1
    /\ UNCHANGED <<conn, toPeer, liveVars, bufVars, sessVars>>

PeerSendText(texts, max) ==
    /\ conn = "open"
    /\ peerSent < max
    /\ \E t \in texts : inbox' = Append(inbox, Text(t))
    /\ peerSent' = peerSent + 1
    /\ UNCHANGED <<conn, toPeer, liveVars, bufVars, sessVars>>

\* The peer disconnects.  Messages already received stay readable.
PeerClose ==
    /\ conn = "open"
    /\ conn' = "closed"
    /\ UNCHANGED <<inbox, toPeer, peerSent, liveVars, bufVars, sessVars>>

---------------------------------------------------------------------------
\* Live mode: audio_handler.

\* Both devices open; the two tasks are created and the handler suspends in
\* asyncio.wait.
AudioHandler_Start ==
    /\ hPc = "start"
    /\ hPc' = "wait"
    /\ inp' = "open"
    /\ outp' = "open"
    /\ UNCHANGED <<inpCloses, outpCloses, rVars, wVars, aVars, connVars, bufVars, sessVars>>

\* A finally block that closes an endpoint whether or not it was acquired.
Release_Always(dev, closes) == <<"closed", closes + 1>>

\* The finally block of audio_handler on one endpoint: <<state, closes>> after
\* "if dev: dev.close()".
Release(dev, closes) ==
    IF dev # "none" THEN <<"closed", closes + 1>> ELSE <<dev, closes>>

\* alsaaudio.PCM(PCM_CAPTURE) raises: inp and outp stay None, the error is
\* caught and the finally block runs; the handler returns.
AudioHandler_InputFails ==
    /\ hPc = "start"
    /\ hPc' = "done"
    /\ inp' = Release("none", inpCloses)[1]
    /\ inpCloses' = Release("none", inpCloses)[2]
    /\ outp' = Release("none", outpCloses)[1]
    /\ outpCloses' = Release("none", outpCloses)[2]
    /\ UNCHANGED <<rVars, wVars, aVars, connVars, bufVars, sessVars>>

\* alsaaudio.PCM(PCM_PLAYBACK) raises after inp was opened: outp stays None,
\* the error is caught and the finally block runs; the handler returns.
AudioHandler_OutputFails ==
    /\ hPc = "start"
    /\ hPc' = "done"
    /\ inp' = Release("open", inpCloses)[1]
    /\ inpCloses' = Release("open", inpCloses)[2]
    /\ outp' = Release("none", outpCloses)[1]
    /\ outpCloses' = Release("none", outpCloses)[2]
    /\ UNCHANGED <<rVars, wVars, aVars, connVars, bufVars, sessVars>>

\* A handler that leaves the pending task running.
CancelPending_None(pc) == FALSE

\* "for task in pending: task.cancel()": TRUE when the task in state pc gets a
\* cancellation request.
CancelPending(pc) == pc # "done"

\* asyncio.wait returns on the first completed task; the handler cancels the
\* pending tasks and, without suspending, closes both devices and returns.
AudioHandler_Finish ==
    /\ hPc = "wait"
    /\ rPc = "done" \/ wPc = "done"
    /\ hPc' = "done"
    /\ rCancel' = CancelPending(rPc)
    /\ wCancel' = CancelPending(wPc)
    /\ inp' = Release(inp, inpCloses)[1]
    /\ inpCloses' = Release(inp, inpCloses)[2]
    /\ outp' = Release(outp, outpCloses)[1]
    /\ outpCloses' = Release(outp, outpCloses)[2]
    /\ UNCHANGED <<rPc, rdThread, rdData, reads, wPc, wrThread, curMsg, played,
                   received, dupStarts, aVars, connVars, bufVars, sessVars>>

\* websockets closes the connection after the handler has returned.
ServerClose ==
    /\ hPc = "done"
    /\ conn = "open"
    /\ conn' = "closed"
    /\ UNCHANGED <<inbox, toPeer, peerSent, liveVars, bufVars, sessVars>>

---------------------------------------------------------------------------
\* Live mode: alsa_to_websocket (task_read).

\* First run of the task: up to the first await of asyncio.to_thread(inp.read).
\* The event loop runs new tasks in creation order, task_read first.
AlsaToWebsocket_Start ==
    /\ hPc = "wait"
    /\ rPc = "init"
    /\ rPc' = "reading"
    /\ rdThread' = "busy"
    /\ UNCHANGED <<rCancel, rdData, reads, hVars, wVars, aVars, connVars, bufVars, sessVars>>

\* inp.read in the worker thread returns (length, data): length > 0 with data,
\* length = 0, length < 0 (a device error code), or it raises.  The thread runs
\* on whether or not the task that started it is still waiting for it.
CaptureRead ==
    /\ rdThread = "busy"
    /\ \/ /\ reads < MaxReads
          /\ \E d \in Payloads : rdData' = d
          /\ rdThread' = "pos"
          /\ reads' = reads + 1
       \/ /\ reads < MaxReads
          /\ rdThread' = "zero"
          /\ reads' = reads + 1
          /\ UNCHANGED rdData
       \/ /\ rdThread' = "neg"
          /\ UNCHANGED <<rdData, reads>>
       \/ /\ rdThread' = "exc"
          /\ UNCHANGED <<rdData, reads>>
    /\ UNCHANGED <<rPc, rCancel, hVars, wVars, aVars, connVars, bufVars, sessVars>>

\* A loop that reads again after a negative length.
ReadOutcome_NegRetries(res, c) ==
    CASE res = "pos"  -> IF c = "open" THEN "send" ELSE "stop"
      [] res = "exc"  -> "stop"
      [] OTHER        -> "retry"

\* What the loop body does with one read, on connection state c:
\* "send" (length > 0, forwarded), "retry" (length = 0, or nothing to do) or
\* "stop" (length < 0, an exception of the read, or ConnectionClosed of send).
ReadOutcome(res, c) ==
    CASE res = "pos"  -> IF c = "open" THEN "send" ELSE "stop"
      [] res = "zero" -> "retry"
      [] OTHER        -> "stop"

\* The task resumes with the result of the read, handles it and either starts
\* the next read or ends.
AlsaToWebsocket_Resume ==
    /\ rPc = "reading"
    /\ wPc # "init"
    /\ ~rCancel
    /\ rdThread \in {"pos", "zero", "neg", "exc"}
    /\ LET o == ReadOutcome(rdThread, conn) IN
         /\ toPeer' = IF o = "send" THEN Send(conn, toPeer, Bin(rdData)) ELSE toPeer
         /\ rPc' = IF o = "stop" THEN "done" ELSE "reading"
         /\ rdThread' = IF o = "stop" THEN "idle" ELSE "busy"
    /\ UNCHANGED <<rCancel, rdData, reads, conn, inbox, peerSent, hVars, wVars,
                   aVars, bufVars, sessVars>>

\* CancelledError is delivered at the await; no handler of the task catches it.
AlsaToWebsocket_Cancelled ==
    /\ rCancel
    /\ rPc # "done"
    /\ rPc' = "done"
    /\ rCancel' = FALSE
    /\ UNCHANGED <<rdThread, rdData, reads, hVars, wVars, aVars, connVars, bufVars, sessVars>>

---------------------------------------------------------------------------
\* Live mode: websocket_to_alsa (task_write).

WebsocketToAlsa_Start ==
    /\ hPc = "wait"
    /\ rPc # "init"
    /\ wPc = "init"
    /\ wPc' = "recv"
    /\ UNCHANGED <<wCancel, wrThread, curMsg, played, received, dupStarts, hVars,
                   rVars, aVars, connVars, bufVars, sessVars>>

\* A handler that schedules an answer task at every MEDIA_START.
ShouldSchedule_NoGuard(message, answer_task) ==
    StartsWith(message, MEDIA_START)

\* A handler that creates an answer task again while one is pending.
ShouldSchedule_Restart(message, answer_task) ==
    StartsWith(message, MEDIA_START) /\ answer_task \in {"none", "sleep", "ready"}

\* A handler that forgets an answer task that has finished.
ShouldSchedule_UnlessPending(message, answer_task) ==
    StartsWith(message, MEDIA_START) /\ answer_task \notin {"sleep", "ready"}

\* message.startswith("MEDIA_START") and not answer_task
ShouldSchedule(message, answer_task) ==
    StartsWith(message, MEDIA_START) /\ answer_task = "none"

\* A loop that starts the write and does not wait for it.
WebsocketToAlsa_RecvBinary_NoAwait ==
    /\ wPc = "recv"
    /\ ~wCancel
    /\ inbox # <<>>
    /\ Head(inbox).kind = "bin"
    /\ inbox' = Tail(inbox)
    /\ wrThread' = "busy"
    /\ curMsg' = Head(inbox).data
    /\ received' = Append(received, Head(inbox))
    /\ UNCHANGED <<wPc, wCancel, played, dupStarts, conn, toPeer, peerSent, hVars,
                   rVars, aVars, bufVars, sessVars>>

\* The loop receives a binary message and hands it to outp.write in a worker
\* thread.
WebsocketToAlsa_RecvBinary ==
    /\ wPc = "recv"
    /\ ~wCancel
    /\ inbox # <<>>
    /\ Head(inbox).kind = "bin"
    /\ inbox' = Tail(inbox)
    /\ wPc' = "write"
    /\ wrThread' = "busy"
    /\ curMsg' = Head(inbox).data
    /\ received' = Append(received, Head(inbox))
    /\ UNCHANGED <<wCancel, played, dupStarts, conn, toPeer, peerSent, hVars,
                   rVars, aVars, bufVars, sessVars>>

\* The loop receives a text message; MEDIA_START* creates the answer task when
\* there is none yet.
WebsocketToAlsa_RecvText ==
    /\ wPc = "recv"
    /\ ~wCancel
    /\ inbox # <<>>
    /\ Head(inbox).kind = "text"
    /\ inbox' = Tail(inbox)
    /\ received' = Append(received, Head(inbox))
    /\ dupStarts' = IF StartsWith(Head(inbox).data, MEDIA_START)
                       /\ aPc \in {"sleep", "ready"}
                    THEN dupStarts + 1 ELSE dupStarts
    /\ IF ShouldSchedule(Head(inbox).data, aPc)
       THEN /\ aPc' = "sleep"
            /\ timerLeft' = ANSWER_DELAY
            /\ sinceFirst' = IF sinceFirst < 0 THEN 0 ELSE sinceFirst
            /\ answerTasks' = answerTasks + 1
            /\ UNCHANGED aCancel
       ELSE UNCHANGED aVars
    /\ UNCHANGED <<wPc, wCancel, wrThread, curMsg, played, conn, toPeer,
                   peerSent, hVars, rVars, bufVars, sessVars>>

\* A finally block that leaves the answer task alone.
FinallyCancels_Never(answer_task) == FALSE

\* The finally block of websocket_to_alsa:
\* "if answer_task and not answer_task.done(): answer_task.cancel()".
\* TRUE when a cancellation of the answer task is requested.
FinallyCancels(answer_task) == answer_task \in {"sleep", "ready"}

\* The connection is closed and every received message has been consumed:
\* the iteration raises ConnectionClosed (or ends), the task ends.
WebsocketToAlsa_ConnectionClosed ==
    /\ wPc = "recv"
    /\ ~wCancel
    /\ inbox = <<>>
    /\ conn = "closed"
    /\ wPc' = "done"
    /\ aCancel' = (aCancel \/ FinallyCancels(aPc))
    /\ UNCHANGED <<wCancel, wrThread, curMsg, played, received, dupStarts, aPc,
                   timerLeft, sinceFirst, answerTasks, hVars, rVars, connVars, bufVars, sessVars>>

\* What outp.write in the worker thread adds to the sink.
SinkWrite(sink, data) == Append(sink, data)

\* outp.write in the worker thread: the payload is written, or the device
\* raises.
PlaybackWrite ==
    /\ wrThread = "busy"
    /\ \/ /\ played' = SinkWrite(played, curMsg)
          /\ wrThread' = "ok"
       \/ /\ wrThread' = "exc"
          /\ UNCHANGED played
    /\ UNCHANGED <<wPc, wCancel, curMsg, received, dupStarts, hVars, rVars, aVars,
                   connVars, bufVars, sessVars>>

\* The task resumes after the write: next message, or the device error ends it.
WebsocketToAlsa_Resume ==
    /\ wPc = "write"
    /\ ~wCancel
    /\ wrThread \in {"ok", "exc"}
    /\ wrThread' = "idle"
    /\ IF wrThread = "ok"
       THEN /\ wPc' = "recv"
            /\ UNCHANGED aCancel
       ELSE /\ wPc' = "done"
            /\ aCancel' = (aCancel \/ FinallyCancels(aPc))
    /\ UNCHANGED <<wCancel, curMsg, played, received, dupStarts, aPc, timerLeft,
                   sinceFirst, answerTasks, hVars, rVars, connVars, bufVars, sessVars>>

\* CancelledError is delivered at the await; only the finally block runs.
WebsocketToAlsa_Cancelled ==
    /\ wCancel
    /\ wPc # "done"
    /\ wPc' = "done"
    /\ wCancel' = FALSE
    /\ aCancel' = (aCancel \/ FinallyCancels(aPc))
    /\ UNCHANGED <<wrThread, curMsg, played, received, dupStarts, aPc, timerLeft,
                   sinceFirst, answerTasks, hVars, rVars, connVars, bufVars, sessVars>>

---------------------------------------------------------------------------
\* Live mode: send_answer_after_delay (answer_task).

\* One second of asyncio.sleep(delay) passes.
Tick ==
    /\ aPc = "sleep"
    /\ ~aCancel
    /\ timerLeft > 0
    /\ timerLeft' = timerLeft - 1
    /\ sinceFirst' = sinceFirst + 1
    /\ UNCHANGED <<aPc, aCancel, answerTasks, hVars, rVars, wVars, connVars,
                   bufVars, sessVars>>

\* A sleep that returns one second early.
SleepOver_Early(left) == left <= 1

\* asyncio.sleep(delay) is over when the whole delay has passed.
SleepOver(left) == left = 0

\* The timer of the sleep expires: the task is made ready to run.  A sleep
\* that was cancelled has no timer any more.
SendAnswerAfterDelay_TimerExpires ==
    /\ aPc = "sleep"
    /\ ~aCancel
    /\ SleepOver(timerLeft)
    /\ aPc' = "ready"
    /\ UNCHANGED <<aCancel, timerLeft, sinceFirst, answerTasks, hVars, rVars,
                   wVars, connVars, bufVars, sessVars>>

\* An answer task that sends although its cancellation was requested.
SendAnswerAfterDelay_Send_Uncancellable ==
    /\ aPc = "ready"
    /\ toPeer' = Send(conn, toPeer, Text(ANSWER))
    /\ aPc' = IF conn = "open" THEN "sent" ELSE "failed"
    /\ UNCHANGED <<aCancel, timerLeft, sinceFirst, answerTasks, conn, inbox,
                   peerSent, hVars, rVars, wVars, bufVars, sessVars>>

\* The task runs after the sleep: websocket.send("ANSWER"), which raises
\* ConnectionClosed on a closed connection.
SendAnswerAfterDelay_Send ==
    /\ aPc = "ready"
    /\ ~aCancel
    /\ toPeer' = Send(conn, toPeer, Text(ANSWER))
    /\ aPc' = IF conn = "open" THEN "sent" ELSE "failed"
    /\ UNCHANGED <<aCancel, timerLeft, sinceFirst, answerTasks, conn, inbox,
                   peerSent, hVars, rVars, wVars, bufVars, sessVars>>

\* A requested cancellation is delivered the next time the task would run,
\* also when the timer has expired in between: CancelledError is raised at the
\* sleep and caught, nothing is sent.
SendAnswerAfterDelay_Cancelled ==
    /\ aCancel
    /\ aPc \in {"sleep", "ready"}
    /\ aPc' = "cancelled"
    /\ aCancel' = FALSE
    /\ UNCHANGED <<timerLeft, sinceFirst, answerTasks, hVars, rVars, wVars,
                   connVars, bufVars, sessVars>>

---------------------------------------------------------------------------
\* Live mode: the session.

\* The sessions a server process runs at the same time.
Sessions == {1, 2}

SessOff ==
    /\ sMode = "off"
    /\ sOpen = [s \in Sessions |-> FALSE]
    /\ sOut = [s \in Sessions |-> <<>>]
    /\ sMsgs = [s \in Sessions |-> 0]
    /\ sEvent = [s \in Sessions |-> TRUE]
    /\ sRecv = [s \in Sessions |-> "done"]
    /\ sSend = [s \in Sessions |-> "off"]
    /\ sPos = [s \in Sessions |-> 0]
    /\ sAnswer = [s \in Sessions |-> "none"]
    /\ sAnswerFor = [s \in Sessions |-> 0]
    /\ sStarted = [s \in Sessions |-> FALSE]
    /\ sActor = 0

BufOff ==
    /\ bhPc = "off" /\ brPc = "off" /\ bsPc = "off"
    /\ can_send_event = TRUE /\ brCancel = FALSE /\ bsCancel = FALSE
    /\ source = <<>> /\ srcExists = TRUE /\ fpos = 0 /\ CHUNK_SIZE = 1
    /\ wokenBy = "none"

ConnInit ==
    /\ conn = "open" /\ inbox = <<>> /\ toPeer = <<>> /\ peerSent = 0

InitLive ==
    /\ ConnInit
    /\ hPc = "start" /\ inp = "none" /\ outp = "none"
    /\ inpCloses = 0 /\ outpCloses = 0
    /\ rPc = "init" /\ rCancel = FALSE /\ rdThread = "idle" /\ rdData = <<>>
    /\ reads = 0
    /\ wPc = "init" /\ wCancel = FALSE /\ wrThread = "idle" /\ curMsg = <<>>
    /\ played = <<>> /\ received = <<>> /\ dupStarts = 0
    /\ aPc = "none" /\ aCancel = FALSE /\ timerLeft = 0 /\ sinceFirst = -1
    /\ answerTasks = 0
    /\ BufOff
    /\ SessOff

\* max: the number of messages the peer sends in the session.
NextLive(max) ==
    \/ PeerSendBinary(Payloads, max)
    \/ PeerSendText(LiveTexts, max)
    \/ PeerClose
    \/ ServerClose
    \/ AudioHandler_Start
    \/ AudioHandler_InputFails
    \/ AudioHandler_OutputFails
    \/ AudioHandler_Finish
    \/ AlsaToWebsocket_Start
    \/ CaptureRead
    \/ AlsaToWebsocket_Resume
    \/ AlsaToWebsocket_Cancelled
    \/ WebsocketToAlsa_Start
    \/ WebsocketToAlsa_RecvBinary
    \/ WebsocketToAlsa_RecvText
    \/ WebsocketToAlsa_ConnectionClosed
    \/ PlaybackWrite
    \/ WebsocketToAlsa_Resume
    \/ WebsocketToAlsa_Cancelled
    \/ Tick
    \/ SendAnswerAfterDelay_TimerExpires
    \/ SendAnswerAfterDelay_Send
    \/ SendAnswerAfterDelay_Cancelled

SpecLive == InitLive /\ [][NextLive(MaxMsgs)]_vars

\* The event loop runs every task that is ready, and time passes.
FairLive ==
    /\ WF_vars(AudioHandler_Finish)
    /\ WF_vars(AlsaToWebsocket_Cancelled)
    /\ WF_vars(WebsocketToAlsa_Cancelled)
    /\ WF_vars(Tick)
    /\ WF_vars(SendAnswerAfterDelay_TimerExpires)
    /\ WF_vars(SendAnswerAfterDelay_Send)
    /\ WF_vars(SendAnswerAfterDelay_Cancelled)

FairSpecLive == InitLive /\ [][NextLive(MaxFairMsgs)]_vars /\ FairLive

---------------------------------------------------------------------------
\* Live mode: properties.

\* Number of ANSWER texts sent on the connection.
AnswersSent ==
    Cardinality({i \in 1..Len(toPeer) :
                    toPeer[i].kind = "text" /\ toPeer[i].data = ANSWER})

\* Number of texts starting with MEDIA_START the receiving loop has received.
StartsReceived ==
    Cardinality({i \in 1..Len(received) :
                    /\ received[i].kind = "text"
                    /\ StartsWith(received[i].data, MEDIA_START)})

\* The binary payloads among the messages of a log, in order.
RECURSIVE BinaryPayloads(_)
BinaryPayloads(log) ==
    IF log = <<>> THEN <<>>
    ELSE (IF Head(log).kind = "bin" THEN <<Head(log).data>> ELSE <<>>)
         \o BinaryPayloads(Tail(log))

\* C1: in a live session ANSWER is sent at most once, whatever the number and
\* timing of MEDIA_START messages, and an answer task exists (and so ANSWER is
\* sent) only after a text starting with MEDIA_START was received.
C1_AnswerOnceAfterMediaStart ==
    /\ AnswersSent <= 1
    /\ (AnswersSent >= 1 \/ aPc # "none") => StartsReceived >= 1

\* Two MEDIA_START texts were received, the second after the ANSWER of the
\* first one, and one ANSWER was sent.
C1_Witness ==
    /\ StartsReceived = 2
    /\ dupStarts = 0
    /\ AnswersSent = 1

\* C5: each endpoint is closed at most once, and once one directional task of
\* a started session has ended, eventually both tasks have ended and each
\* endpoint has been closed exactly once.
C5_TeardownCompletes ==
    /\ [](inpCloses <= 1 /\ outpCloses <= 1)
    /\ (hPc = "wait" /\ (rPc = "done" \/ wPc = "done"))
          ~> (/\ rPc = "done" /\ wPc = "done"
              /\ inpCloses = 1 /\ outpCloses = 1)

\* The receiving task ended at the peer's disconnect, the forwarding task was
\* cancelled while its read was running, both endpoints were closed once.
C5_Witness ==
    /\ hPc = "done" /\ rPc = "done" /\ wPc = "done"
    /\ rdThread = "busy"
    /\ inpCloses = 1 /\ outpCloses = 1

\* C6: when the receiving task has ended, an answer task that is still pending
\* has its cancellation requested, and no ANSWER is sent from then on.
C6_NoAnswerAfterReceiverEnds ==
    /\ [](wPc = "done" /\ aPc \in {"sleep", "ready"} => aCancel)
    /\ [][wPc = "done" => AnswersSent' = AnswersSent]_vars

\* The orchestrator cancelled the receiving task after the timer had expired
\* and before the answer task ran; the answer task ended cancelled and nothing
\* was sent.
C6_Witness ==
    /\ hPc = "done" /\ wPc = "done"
    /\ aPc = "cancelled" /\ timerLeft = 0
    /\ AnswersSent = 0

\* C7: the timer of the answer task is anchored at the first MEDIA_START: it
\* expires, and ANSWER is sent, ANSWER_DELAY after it and not before, whatever
\* MEDIA_START arrives in between; and a pending answer task leads to ANSWER
\* unless the connection closes or the receiving task ends or is cancelled.
C7_AnswerAfterFixedDelay ==
    /\ [](aPc # "none" => sinceFirst + timerLeft = ANSWER_DELAY)
    /\ [](aPc \in {"ready", "sent", "failed"} => sinceFirst = ANSWER_DELAY)
    /\ [](AnswersSent >= 1 => sinceFirst = ANSWER_DELAY)
    /\ (aPc \in {"sleep", "ready"})
          ~> (AnswersSent = 1 \/ conn = "closed" \/ wPc = "done" \/ wCancel)

\* A second MEDIA_START arrived while the timer was running, and ANSWER was
\* sent ANSWER_DELAY after the first one, the session still alive.
C7_Witness ==
    /\ dupStarts >= 1
    /\ aPc = "sent" /\ AnswersSent = 1
    /\ sinceFirst = ANSWER_DELAY
    /\ conn = "open" /\ wPc = "recv"

\* C8: the payloads written to the sink are the binary payloads received, in
\* the order received: all of them whenever the loop waits for the next
\* message, all but the one being written otherwise.
C8_BinaryForwardedInOrder ==
    /\ IsPrefix(played, BinaryPayloads(received))
    /\ Len(BinaryPayloads(received)) - Len(played) <= 1
    /\ wPc = "recv" => played = BinaryPayloads(received)
    /\ (wPc = "write" /\ wrThread = "ok") => played = BinaryPayloads(received)

\* Two different payloads with a MEDIA_START between them were written in
\* order while the answer task was pending.
C8_Witness ==
    /\ Len(received) = 3
    /\ received[1].kind = "bin" /\ received[2].kind = "text"
    /\ received[3].kind = "bin"
    /\ received[1].data # received[3].data
    /\ played = <<received[1].data, received[3].data>>
    /\ aPc = "sleep"

\* C9: the endpoints of a started session are released only after both
\* directional tasks have finished, so that no device read or write is running
\* once they are released.
C9_ReleaseAfterTasksFinished ==
    (hPc = "done" /\ rPc # "init") =>
        /\ rPc = "done" /\ wPc = "done"
        /\ rdThread # "busy" /\ wrThread # "busy"

---------------------------------------------------------------------------
\* Buffered mode: audio_handler.

\* The event is created set, the two tasks are created and the handler
\* suspends in asyncio.wait.
BufAudioHandler_Start ==
    /\ bhPc = "start"
    /\ bhPc' = "wait"
    /\ can_send_event' = TRUE
    /\ UNCHANGED <<brPc, brCancel, bsPc, bsCancel, source, srcExists, fpos,
                   CHUNK_SIZE, wokenBy, connVars, liveVars, sessVars>>

\* asyncio.wait returns on the first completed task; the handler cancels the
\* pending task and returns.  A task that was made ready before the handler
\* (the sender released by the last run of the receiving task) runs first.
BufAudioHandler_Finish ==
    /\ bhPc = "wait"
    /\ brPc = "done" \/ bsPc = "done"
    /\ bsPc \notin {"init", "woken"}
    /\ bhPc' = "done"
    /\ brCancel' = (brPc # "done")
    /\ bsCancel' = (bsPc # "done")
    /\ UNCHANGED <<can_send_event, brPc, bsPc, source, srcExists, fpos,
                   CHUNK_SIZE, wokenBy, connVars, liveVars, sessVars>>

\* websockets closes the connection after the handler has returned.
BufServerClose ==
    /\ bhPc = "done"
    /\ conn = "open"
    /\ conn' = "closed"
    /\ UNCHANGED <<inbox, toPeer, peerSent, liveVars, bufVars, sessVars>>

---------------------------------------------------------------------------
\* Buffered mode: handle_incoming (task_read).

\* A comparison that accepts any text starting with the signal's name.
GateAfter_Prefix(m, ev) ==
    IF m.kind = "text" /\ StartsWith(m.data, MEDIA_XOFF) THEN FALSE
    ELSE IF m.kind = "text" /\ StartsWith(m.data, MEDIA_XON) THEN TRUE
    ELSE ev

\* The event after one received message: MEDIA_XOFF clears it, MEDIA_XON sets
\* it (both compared exactly), any other text and any binary leave it.
GateAfter(m, ev) ==
    IF m.kind = "text" /\ m.data = MEDIA_XOFF THEN FALSE
    ELSE IF m.kind = "text" /\ m.data = MEDIA_XON THEN TRUE
    ELSE ev

\* The event after the messages msgs, handled in order.
RECURSIVE GateAfterAll(_, _)
GateAfterAll(msgs, ev) ==
    IF msgs = <<>> THEN ev
    ELSE GateAfterAll(Tail(msgs), GateAfter(Head(msgs), ev))

\* Whether handling msgs in order calls set() on a cleared event, which
\* releases a task waiting in wait().
RECURSIVE SetsCleared(_, _)
SetsCleared(msgs, ev) ==
    IF msgs = <<>> THEN FALSE
    ELSE \/ (~ev /\ GateAfter(Head(msgs), ev))
         \/ SetsCleared(Tail(msgs), GateAfter(Head(msgs), ev))

\* One run of the receiving loop: recv does not suspend while messages are
\* queued, so the run handles every queued message and then waits for the next
\* one.  A sender that an earlier run has released runs before this one.
HandleIncoming_Run ==
    /\ bhPc # "start"
    /\ brPc = "recv"
    /\ ~brCancel
    /\ bsPc # "woken"
    /\ inbox # <<>>
    /\ inbox' = <<>>
    /\ can_send_event' = GateAfterAll(inbox, can_send_event)
    /\ IF bsPc = "blocked" /\ SetsCleared(inbox, can_send_event)
       THEN bsPc' = "woken" /\ wokenBy' = "xon"
       ELSE UNCHANGED <<bsPc, wokenBy>>
    /\ UNCHANGED <<bhPc, brPc, brCancel, bsCancel, source, srcExists, fpos,
                   CHUNK_SIZE, conn, toPeer, peerSent, liveVars, sessVars>>

\* The finally block of handle_incoming: can_send_event.set().  The sender's
\* state after it.
FinallySet(pc, ev) == IF pc = "blocked" /\ ~ev THEN "woken" ELSE pc

\* The end of the receiving task after the messages done were handled: the
\* finally block sets the event.
IncomingEnds(done) ==
    LET ev == GateAfterAll(done, can_send_event)
        pc == IF bsPc = "blocked" /\ SetsCleared(done, can_send_event)
              THEN "woken" ELSE bsPc
    IN  /\ brPc' = "done"
        /\ can_send_event' = TRUE
        /\ bsPc' = FinallySet(pc, ev)
        /\ wokenBy' = IF pc = "blocked" /\ ~ev THEN "teardown"
                      ELSE IF pc # bsPc THEN "xon" ELSE wokenBy

\* The connection is closed: the run handles what is queued, then the
\* iteration raises ConnectionClosed (or ends) and the task ends.
HandleIncoming_ConnectionClosed ==
    /\ bhPc # "start"
    /\ brPc = "recv"
    /\ ~brCancel
    /\ bsPc # "woken"
    /\ conn = "closed"
    /\ inbox' = <<>>
    /\ IncomingEnds(inbox)
    /\ UNCHANGED <<bhPc, brCancel, bsCancel, source, srcExists, fpos, CHUNK_SIZE,
                   conn, toPeer, peerSent, liveVars, sessVars>>

\* The loop body raises while it handles the k-th queued message, a text
\* (print fails): the messages before it were handled, this one has no effect,
\* "except Exception" catches the error and the task ends.
HandleIncoming_Error ==
    /\ bhPc # "start"
    /\ brPc = "recv"
    /\ ~brCancel
    /\ bsPc # "woken"
    /\ \E k \in 1..Len(inbox) :
          /\ inbox[k].kind = "text"
          /\ inbox' = SubSeq(inbox, k + 1, Len(inbox))
          /\ IncomingEnds(SubSeq(inbox, 1, k - 1))
    /\ UNCHANGED <<bhPc, brCancel, bsCancel, source, srcExists, fpos, CHUNK_SIZE,
                   conn, toPeer, peerSent, liveVars, sessVars>>

\* CancelledError is delivered at the await; the finally block runs.
HandleIncoming_Cancelled ==
    /\ brCancel
    /\ brPc # "done"
    /\ brCancel' = FALSE
    /\ IncomingEnds(<<>>)
    /\ UNCHANGED <<bhPc, bsCancel, source, srcExists, fpos, CHUNK_SIZE, connVars,
                   liveVars, sessVars>>

---------------------------------------------------------------------------
\* Buffered mode: send_audio_file (task_write).

Min(a, b) == IF a <= b THEN a ELSE b

\* A read that returns nothing when fewer than n bytes are left.
ReadChunk_FullOnly(src, pos, n) ==
    IF pos + n <= Len(src) THEN SubSeq(src, pos + 1, pos + n) ELSE <<>>

\* f.read(n) at file position pos
ReadChunk(src, pos, n) == SubSeq(src, pos + 1, Min(pos + n, Len(src)))

\* A file position that moves one byte too far after a read.
NextPos_Skip(pos, data) == pos + Len(data) + 1

\* The file position after f.read returned data.
NextPos(pos, data) == pos + Len(data)

\* A first run that treats a file it cannot open as an empty one.
SendAudioFile_Start_NoFileCheck ==
    /\ bhPc = "wait"
    /\ bsPc = "init"
    /\ ~bsCancel
    /\ toPeer' = Send(conn, toPeer, Text(START_MEDIA_BUFFERING))
    /\ bsPc' = IF conn = "open" THEN "loop" ELSE "done"
    /\ UNCHANGED <<bhPc, can_send_event, brPc, brCancel, bsCancel, source,
                   srcExists, fpos, CHUNK_SIZE, wokenBy, conn, inbox, peerSent,
                   liveVars, sessVars>>

\* First run of the task: START_MEDIA_BUFFERING is sent, the file is opened.
\* ConnectionClosed of the send and FileNotFoundError of the open end the task.
SendAudioFile_Start ==
    /\ bhPc = "wait"
    /\ bsPc = "init"
    /\ ~bsCancel
    /\ toPeer' = Send(conn, toPeer, Text(START_MEDIA_BUFFERING))
    /\ bsPc' = IF conn = "open" /\ srcExists THEN "loop" ELSE "done"
    /\ UNCHANGED <<bhPc, can_send_event, brPc, brCancel, bsCancel, source,
                   srcExists, fpos, CHUNK_SIZE, wokenBy, conn, inbox, peerSent,
                   liveVars, sessVars>>

\* can_send_event.wait() at the head of the loop finds the event cleared: the
\* task waits for set().
SendAudioFile_Block ==
    /\ bsPc = "loop"
    /\ ~bsCancel
    /\ ~can_send_event
    /\ bsPc' = "blocked"
    /\ UNCHANGED <<bhPc, can_send_event, brPc, brCancel, bsCancel, source,
                   srcExists, fpos, CHUNK_SIZE, wokenBy, connVars, liveVars, sessVars>>

\* A wait() that does not return to a task that set() has released.
WaitReturns_NeverWoken(pc, ev) == pc = "loop" /\ ev

\* A wait() that returns whatever the event is.
WaitReturns_Always(pc, ev) == TRUE

\* can_send_event.wait() returns: at once when the event is set, and after
\* set() has released the waiting task, whatever the event is by then.
WaitReturns(pc, ev) == (pc = "loop" /\ ev) \/ pc = "woken"

\* One iteration of the loop after wait(): the next chunk is read; an empty
\* chunk ends the loop and STOP_MEDIA_BUFFERING is sent; any other chunk is
\* sent and the task yields (asyncio.sleep(0)).  ConnectionClosed of a send
\* ends the task.
SendAudioFile_Step ==
    /\ bsPc \in {"loop", "woken"}
    /\ ~bsCancel
    /\ WaitReturns(bsPc, can_send_event)
    /\ LET data == ReadChunk(source, fpos, CHUNK_SIZE) IN
         /\ fpos' = NextPos(fpos, data)
         /\ IF data = <<>>
            THEN /\ toPeer' = Send(conn, toPeer, Text(STOP_MEDIA_BUFFERING))
                 /\ bsPc' = "done"
            ELSE /\ toPeer' = Send(conn, toPeer, Bin(data))
                 /\ bsPc' = IF conn = "open" THEN "loop" ELSE "done"
    /\ UNCHANGED <<bhPc, can_send_event, brPc, brCancel, bsCancel, source,
                   srcExists, CHUNK_SIZE, wokenBy, conn, inbox, peerSent, liveVars, sessVars>>

\* CancelledError is delivered at the await (wait, send or sleep).
SendAudioFile_Cancelled ==
    /\ bsCancel
    /\ bsPc # "done"
    /\ bsPc' = "done"
    /\ bsCancel' = FALSE
    /\ UNCHANGED <<bhPc, can_send_event, brPc, brCancel, source, srcExists, fpos,
                   CHUNK_SIZE, wokenBy, connVars, liveVars, sessVars>>

---------------------------------------------------------------------------
\* Buffered mode: the session.

\* Sequences over S of length n.
SeqsOfLen(S, n) == [1..n -> S]

LiveOff ==
    /\ hPc = "off" /\ inp = "none" /\ outp = "none"
    /\ inpCloses = 0 /\ outpCloses = 0
    /\ rPc = "off" /\ rCancel = FALSE /\ rdThread = "idle" /\ rdData = <<>>
    /\ reads = 0
    /\ wPc = "off" /\ wCancel = FALSE /\ wrThread = "idle" /\ curMsg = <<>>
    /\ played = <<>> /\ received = <<>> /\ dupStarts = 0
    /\ aPc = "none" /\ aCancel = FALSE /\ timerLeft = 0 /\ sinceFirst = -1
    /\ answerTasks = 0

\* AUDIO_FILE holds any bytes, or cannot be opened; CHUNK_SIZE is any size.
InitBuf ==
    /\ ConnInit
    /\ LiveOff
    /\ bhPc = "start" /\ can_send_event = TRUE
    /\ brPc = "recv" /\ brCancel = FALSE
    /\ bsPc = "init" /\ bsCancel = FALSE
    /\ srcExists \in BOOLEAN
    /\ \E n \in 0..MaxSrcLen : source \in SeqsOfLen(Bytes, n)
    /\ srcExists = FALSE => source = <<>>
    /\ fpos = 0
    /\ CHUNK_SIZE \in 1..MaxChunk
    /\ wokenBy = "none"
    /\ SessOff

NextBuf ==
    \/ PeerSendBinary({<<1>>}, MaxMsgs)
    \/ PeerSendText(BufTexts, MaxMsgs)
    \/ PeerClose
    \/ BufServerClose
    \/ BufAudioHandler_Start
    \/ BufAudioHandler_Finish
    \/ HandleIncoming_Run
    \/ HandleIncoming_ConnectionClosed
    \/ HandleIncoming_Error
    \/ HandleIncoming_Cancelled
    \/ SendAudioFile_Start
    \/ SendAudioFile_Block
    \/ SendAudioFile_Step
    \/ SendAudioFile_Cancelled

SpecBuf == InitBuf /\ [][NextBuf]_vars

---------------------------------------------------------------------------
\* Buffered mode: properties.

RECURSIVE Concat(_)
Concat(seqs) == IF seqs = <<>> THEN <<>> ELSE Head(seqs) \o Concat(Tail(seqs))

\* The source's chunk sequence: the i-th chunk of src for chunk size n.
SourceChunk(src, n, i) == SubSeq(src, (i - 1) * n + 1, Min(i * n, Len(src)))

StopSent == \E i \in 1..Len(toPeer) : toPeer[i] = Text(STOP_MEDIA_BUFFERING)

\* A step in which a binary message is sent to the peer.
BinarySendStep ==
    /\ Len(toPeer') = Len(toPeer) + 1
    /\ toPeer'[Len(toPeer')].kind = "bin"

\* C2: the sender issues no binary send while the flow gate is closed (the
\* event is cleared), including when MEDIA_XON is followed at once by
\* MEDIA_XOFF before the released sender runs.
C2_NoBinaryWhileGateClosed == [][BinarySendStep => can_send_event]_vars

\* C3: START_MEDIA_BUFFERING is the first message and is sent once; every
\* message between it and STOP_MEDIA_BUFFERING is binary; STOP_MEDIA_BUFFERING
\* is only ever the last message; and once it is sent, the binary messages
\* concatenated in send order are the source's bytes.
C3_StartChunksStop ==
    /\ toPeer # <<>> => toPeer[1] = Text(START_MEDIA_BUFFERING)
    /\ \A i \in 2..Len(toPeer) :
          /\ toPeer[i] # Text(START_MEDIA_BUFFERING)
          /\ toPeer[i].kind = "text" =>
                (toPeer[i] = Text(STOP_MEDIA_BUFFERING) /\ i = Len(toPeer))
    /\ StopSent =>
          /\ Concat(BinaryPayloads(toPeer)) = source
          /\ bsPc = "done"

C3_Witness ==
    /\ StopSent
    /\ Len(source) = 3
    /\ CHUNK_SIZE = 2
    /\ Len(toPeer) = 4
    /\ conn = "open"

\* C4: the chunks sent so far are at every moment the first chunks of the
\* source, in order, each once: the i-th binary message is the i-th chunk of
\* the source, whatever pauses happened between them.
C4_ChunksArePrefix ==
    LET sent == BinaryPayloads(toPeer) IN
      /\ \A i \in 1..Len(sent) :
            /\ sent[i] # <<>>
            /\ sent[i] = SourceChunk(source, CHUNK_SIZE, i)
      /\ bsPc \in {"loop", "blocked", "woken"} => fpos = Len(Concat(sent))

C4_Witness ==
    /\ wokenBy = "xon"
    /\ bsPc = "blocked"
    /\ ~can_send_event
    /\ source = <<1, 2, 1>>
    /\ CHUNK_SIZE = 1
    /\ BinaryPayloads(toPeer) = << <<1>>, <<2>> >>

\* C10: a sender that was released from the closed gate by the end of the
\* receiving task sends nothing further, neither a chunk nor
\* STOP_MEDIA_BUFFERING.
C10_TeardownWakeSendsNothing == [][wokenBy = "teardown" => toPeer' = toPeer]_vars

---------------------------------------------------------------------------
\* Live mode: further properties.

\* C11: at most one answer task is ever created in a live session, and a text
\* starting with MEDIA_START that is received while the answer task is pending
\* changes nothing but the receiving loop's own position in its input: the
\* answer task, its timer, the devices, the forwarding task, the sink and what
\* was sent stay as they were.
C11_AtMostOneScheduler ==
    /\ [](answerTasks <= 1)
    /\ [][dupStarts' # dupStarts =>
             /\ aVars' = aVars
             /\ hVars' = hVars
             /\ rVars' = rVars
             /\ <<wPc, wCancel, wrThread, curMsg, played>>' =
                   <<wPc, wCancel, wrThread, curMsg, played>>
             /\ <<conn, toPeer>>' = <<conn, toPeer>>]_vars

\* Two further MEDIA_START texts were received while the one answer task was
\* sleeping, one second before its timer expires.
C11_Witness ==
    /\ dupStarts = 2
    /\ answerTasks = 1
    /\ aPc = "sleep"
    /\ timerLeft = 1

\* A live session whose device acquisition failed: the handler has returned
\* and the directional tasks were never created.
AcquisitionFailed == hPc = "done" /\ rPc = "init"

\* C12: when opening the capture source or the playback sink fails, the
\* handler returns normally; no directional task and no answer task is ever
\* started, no device I/O runs and nothing is sent; an endpoint that was opened
\* before the failure is closed exactly once and an endpoint that was never
\* opened is not closed.
C12_AcquisitionFailure ==
    /\ [](AcquisitionFailed =>
            /\ wPc = "init" /\ aPc = "none"
            /\ rdThread = "idle" /\ wrThread = "idle"
            /\ toPeer = <<>> /\ played = <<>>
            /\ inp \in {"none", "closed"}
            /\ inpCloses = (IF inp = "closed" THEN 1 ELSE 0)
            /\ outp = "none" /\ outpCloses = 0)
    /\ [][AcquisitionFailed => <<liveVars, toPeer>>' = <<liveVars, toPeer>>]_vars

\* The playback sink could not be opened: the capture source, opened before,
\* was closed once; the peer has sent messages that nothing consumes.
C12_Witness ==
    /\ AcquisitionFailed
    /\ inp = "closed" /\ inpCloses = 1
    /\ outp = "none" /\ outpCloses = 0
    /\ Len(inbox) = 2
    /\ conn = "closed"

\* A step in which alsa_to_websocket resumes with the result of a read.
ForwarderResumes ==
    /\ rPc = "reading"
    /\ rdThread \in {"pos", "zero", "neg", "exc"}
    /\ rdThread' # rdThread

\* C13: alsa_to_websocket handles each read by its length.  A positive length
\* on an open connection sends exactly one binary message with the data read
\* and the loop reads again; a positive length on a closed connection sends
\* nothing and ends the loop; a zero length sends nothing and the loop reads
\* again; a negative length sends nothing and ends the loop.  Nothing else
\* sends a binary message, and once the loop has ended the handler tears the
\* session down.
C13_ForwardByLength ==
    /\ [][ForwarderResumes =>
             /\ (rdThread = "pos" /\ conn = "open") =>
                   /\ toPeer' = Append(toPeer, Bin(rdData))
                   /\ rPc' = "reading" /\ rdThread' = "busy"
             /\ (rdThread = "pos" /\ conn = "closed") =>
                   /\ toPeer' = toPeer
                   /\ rPc' = "done" /\ rdThread' = "idle"
             /\ rdThread = "zero" =>
                   /\ toPeer' = toPeer
                   /\ rPc' = "reading" /\ rdThread' = "busy"
             /\ rdThread = "neg" =>
                   /\ toPeer' = toPeer
                   /\ rPc' = "done" /\ rdThread' = "idle"]_vars
    /\ [][BinaryPayloads(toPeer') # BinaryPayloads(toPeer) =>
             (ForwarderResumes /\ rdThread = "pos")]_vars
    /\ (hPc = "wait" /\ rPc = "done") ~> (hPc = "done")

\* One read was forwarded, the next one ended the loop on an open connection,
\* and the handler has torn the session down, cancelling the receiving task.
C13_Witness ==
    /\ hPc = "done"
    /\ rPc = "done" /\ rdThread = "idle"
    /\ conn = "open"
    /\ toPeer = <<Bin(<<2>>)>>
    /\ wCancel

\* What holds of a cancellation of the answer task whenever it is requested:
\* no ANSWER is sent while the request is pending or after it was delivered;
\* the step that requests it ends the receiving task normally and leaves the
\* answer task's position alone; a finished answer task gets no request and
\* keeps its outcome; and a failed send on a closed connection changes nothing
\* but the answer task's own position.
CancelBasics ==
    /\ [][aCancel => AnswersSent' = AnswersSent]_vars
    /\ [](aPc = "cancelled" => AnswersSent = 0)
    /\ [][(aCancel' /\ ~aCancel) => (wPc' = "done" /\ aPc' = aPc)]_vars
    /\ [](aPc \notin {"sleep", "ready"} => ~aCancel)
    /\ [][(aPc \in {"sent", "failed", "cancelled"}) => (aPc' = aPc)]_vars
    /\ [][(aPc' = "failed" /\ aPc # "failed") =>
             /\ <<conn, toPeer>>' = <<conn, toPeer>>
             /\ <<hVars, rVars, wVars>>' = <<hVars, rVars, wVars>>]_vars

\* C14 (as stated): cancelled before expiry, the answer task sends no ANSWER;
\* a cancellation after the timer has fired is a no-op, so that an answer task
\* whose timer has fired goes on to its send; a cancellation after the task
\* ended is a no-op; cancellation never raises to the cancelling task; a failed
\* send on a closed connection does not propagate.
C14_CancelAfterTimerFiredIsNoOp ==
    /\ CancelBasics
    /\ [][aPc = "ready" => aPc' \in {"ready", "sent", "failed"}]_vars

\* C14 (amended): a cancellation requested at any moment before the answer
\* task has run its send, also after its timer has fired, makes the task end
\* cancelled without sending ANSWER; a cancellation is a no-op only once the
\* task has finished (ANSWER sent, or the send failed); cancellation never
\* raises to the cancelling task; a failed send on a closed connection does not
\* propagate.
C14_CancelSemantics ==
    /\ CancelBasics
    /\ [][(aPc \in {"sleep", "ready"} /\ aCancel) =>
             aPc' \in {aPc, "cancelled"}]_vars

\* The send of the answer task failed on the closed connection; the receiving
\* task then ended and its finally block found the answer task finished.
C14_Witness ==
    /\ aPc = "failed"
    /\ wPc = "done"
    /\ ~aCancel
    /\ answerTasks = 1
    /\ AnswersSent = 0

---------------------------------------------------------------------------
\* Either mode: one session of the live server or of the buffered server,
\* whose peer sends any of the texts of both protocols.

AllTexts == LiveTexts \cup BufTexts

LiveSteps ==
    \/ ServerClose
    \/ AudioHandler_Start
    \/ AudioHandler_InputFails
    \/ AudioHandler_OutputFails
    \/ AudioHandler_Finish
    \/ AlsaToWebsocket_Start
    \/ CaptureRead
    \/ AlsaToWebsocket_Resume
    \/ AlsaToWebsocket_Cancelled
    \/ WebsocketToAlsa_Start
    \/ WebsocketToAlsa_RecvBinary
    \/ WebsocketToAlsa_RecvText
    \/ WebsocketToAlsa_ConnectionClosed
    \/ PlaybackWrite
    \/ WebsocketToAlsa_Resume
    \/ WebsocketToAlsa_Cancelled
    \/ Tick
    \/ SendAnswerAfterDelay_TimerExpires
    \/ SendAnswerAfterDelay_Send
    \/ SendAnswerAfterDelay_Cancelled

BufSteps ==
    \/ BufServerClose
    \/ BufAudioHandler_Start
    \/ BufAudioHandler_Finish
    \/ HandleIncoming_Run
    \/ HandleIncoming_ConnectionClosed
    \/ HandleIncoming_Error
    \/ HandleIncoming_Cancelled
    \/ SendAudioFile_Start
    \/ SendAudioFile_Block
    \/ SendAudioFile_Step
    \/ SendAudioFile_Cancelled

InitModes == InitLive \/ InitBuf

NextModes ==
    \/ PeerSendBinary(Payloads, MaxFairMsgs)
    \/ PeerSendText(AllTexts, MaxFairMsgs)
    \/ PeerClose
    \/ LiveSteps
    \/ BufSteps

SpecModes == InitModes /\ [][NextModes]_vars

\* The largest element of a non-empty set of numbers.
MaxOf(S) == CHOOSE x \in S : \A y \in S : y <= x

\* The flow gate after the messages msgs as the protocol defines it: the last
\* text that is exactly MEDIA_XOFF or MEDIA_XON decides; without one the gate
\* stays as it was.
LastSignal(msgs, ev) ==
    LET idx == {i \in 1..Len(msgs) :
                   msgs[i] = Text(MEDIA_XOFF) \/ msgs[i] = Text(MEDIA_XON)}
    IN  IF idx = {} THEN ev ELSE msgs[MaxOf(idx)] = Text(MEDIA_XON)

\* A step in which handle_incoming takes messages from the connection.
IncomingConsumes == brPc = "recv" /\ Len(inbox') < Len(inbox)

\* A step in which websocket_to_alsa takes a message from the connection.
LiveConsumes == wPc = "recv" /\ Len(inbox') < Len(inbox)

\* C15: the handling of received messages sends nothing, and changes the flow
\* gate or the answer task only for recognized signals.  In a buffered
\* session the gate after a run of the loop is decided by the last exact
\* MEDIA_XOFF or MEDIA_XON among the messages handled, texts that differ in
\* case or carry extra characters and binary messages leaving it as it was,
\* and the file position is untouched.  In a live session a binary message
\* and a text that does not start with MEDIA_START leave the answer task as it
\* was.
C15_ProcessorFrame ==
    /\ [][IncomingConsumes =>
             /\ toPeer' = toPeer
             /\ fpos' = fpos
             /\ brPc' = "recv" =>
                   can_send_event' = LastSignal(inbox, can_send_event)]_vars
    /\ [][LiveConsumes =>
             /\ toPeer' = toPeer
             /\ ~(/\ Head(inbox).kind = "text"
                  /\ StartsWith(Head(inbox).data, MEDIA_START)) =>
                   aVars' = aVars]_vars

\* A buffered session has handled "MEDIA_XOFF" followed by "MEDIA_XON\n" in
\* one run: the gate is closed, the sender waits, nothing but
\* START_MEDIA_BUFFERING was sent.
C15_Witness ==
    /\ brPc = "recv"
    /\ peerSent = 2 /\ inbox = <<>>
    /\ ~can_send_event
    /\ bsPc = "blocked"
    /\ toPeer = <<Text(START_MEDIA_BUFFERING)>>

---------------------------------------------------------------------------
\* Buffered mode under fair scheduling.

NextBufFair ==
    \/ PeerSendBinary({<<1>>}, MaxFairMsgs)
    \/ PeerSendText(BufTexts, MaxFairMsgs)
    \/ PeerClose
    \/ BufSteps

\* The event loop runs every task that is ready.  Nothing obliges the peer to
\* send or to disconnect, nor the loop body to fail.
FairBuf ==
    /\ WF_vars(BufAudioHandler_Start)
    /\ WF_vars(BufAudioHandler_Finish)
    /\ WF_vars(HandleIncoming_Run)
    /\ WF_vars(HandleIncoming_ConnectionClosed)
    /\ WF_vars(HandleIncoming_Cancelled)
    /\ WF_vars(SendAudioFile_Start)
    /\ WF_vars(SendAudioFile_Block)
    /\ WF_vars(SendAudioFile_Step)
    /\ WF_vars(SendAudioFile_Cancelled)

FairSpecBuf == InitBuf /\ [][NextBufFair]_vars /\ FairBuf

\* The sender has sent the whole source and then STOP_MEDIA_BUFFERING.
AllSent ==
    /\ StopSent
    /\ Concat(BinaryPayloads(toPeer)) = source

\* C16: the sender always ends.  If the source can be opened, the connection
\* stays open and the receiving task goes on for as long as the sender runs,
\* and the flow gate is eventually left open, the sender eventually has sent
\* every chunk and then STOP_MEDIA_BUFFERING and is done.  A requested
\* cancellation and a closed connection each lead to the sender being done,
\* and from the cancellation request on, on a closed connection, and once
\* done, the sender sends nothing.
C16_SenderTerminates ==
    /\ (/\ srcExists
        /\ [](bsPc # "done" => (conn = "open" /\ brPc # "done"))
        /\ <>[]can_send_event)
          => <>(bsPc = "done" /\ AllSent)
    /\ (bsCancel \/ conn = "closed") ~> (bsPc = "done")
    /\ [][(bsCancel \/ conn = "closed" \/ bsPc = "done") => toPeer' = toPeer]_vars

\* The sender was paused and released by MEDIA_XON, sent the three chunks of
\* the source and STOP_MEDIA_BUFFERING on the open connection, and is done
\* while the receiving task still runs.
C16_Witness ==
    /\ bsPc = "done"
    /\ AllSent
    /\ wokenBy = "xon"
    /\ Len(source) = 3 /\ CHUNK_SIZE = 1
    /\ conn = "open"
    /\ brPc = "recv"

---------------------------------------------------------------------------
\* Live mode: the life of the answer task.

\* C18: the answer task of a live session is created at most once and moves
\* only forward: none, then pending (sleeping, then ready to send), then sent,
\* failed or cancelled, which it never leaves.  A message received after the
\* answer task has finished, a further MEDIA_START included, creates no task,
\* changes nothing of the finished one and sends nothing.
C18_HandleNeverCleared ==
    /\ [](answerTasks <= 1)
    /\ [][/\ aPc = "none" => aPc' \in {"none", "sleep"}
          /\ aPc = "sleep" => aPc' \in {"sleep", "ready", "cancelled"}
          /\ aPc = "ready" => aPc' \in {"ready", "sent", "failed", "cancelled"}
          /\ aPc \in {"sent", "failed", "cancelled"} => (aPc' = aPc)]_vars
    /\ [][(LiveConsumes /\ aPc \in {"sent", "failed", "cancelled"}) =>
             (aVars' = aVars /\ toPeer' = toPeer)]_vars

\* The send of ANSWER failed on the closed connection, and a second
\* MEDIA_START, received afterwards, scheduled nothing.
C18_Witness ==
    /\ aPc = "failed"
    /\ StartsReceived = 2
    /\ dupStarts = 0
    /\ answerTasks = 1
    /\ wPc = "recv"

---------------------------------------------------------------------------
\* Buffered mode: the bracket.

\* What holds of the bracket in every case: STOP_MEDIA_BUFFERING is sent only
\* after START_MEDIA_BUFFERING and only when the source was opened and read to
\* its end, all of it sent; a source that cannot be opened yields no chunk
\* and no STOP_MEDIA_BUFFERING; and from a cancellation request on, on a
\* closed connection, and once done, the sender sends nothing.
BracketBasics ==
    /\ [](StopSent =>
            /\ toPeer[1] = Text(START_MEDIA_BUFFERING)
            /\ srcExists
            /\ fpos = Len(source)
            /\ Concat(BinaryPayloads(toPeer)) = source)
    /\ [](~srcExists => toPeer \in {<<>>, <<Text(START_MEDIA_BUFFERING)>>})
    /\ [][(bsCancel \/ conn = "closed" \/ bsPc = "done") => toPeer' = toPeer]_vars

\* C19 (as stated): whenever the sender has ended without
\* STOP_MEDIA_BUFFERING (the source could not be opened, the sender was
\* cancelled or hit a connection error), START_MEDIA_BUFFERING has been sent.
C19_StartSentBracketUnclosed ==
    /\ BracketBasics
    /\ []((bsPc = "done" /\ ~StopSent) =>
            (toPeer # <<>> /\ toPeer[1] = Text(START_MEDIA_BUFFERING)))

\* C19 (amended): a sender that has ended without STOP_MEDIA_BUFFERING has
\* sent START_MEDIA_BUFFERING first, unless the connection was already closed
\* at its first send, in which case it has sent nothing at all.
C19_StopOnlyOnExhaustion ==
    /\ BracketBasics
    /\ []((bsPc = "done" /\ ~StopSent) =>
            \/ (toPeer # <<>> /\ toPeer[1] = Text(START_MEDIA_BUFFERING))
            \/ (toPeer = <<>> /\ conn = "closed"))

\* The source could not be opened: START_MEDIA_BUFFERING was sent on the open
\* connection, the sender is done and the bracket stays unclosed.
C19_Witness ==
    /\ ~srcExists
    /\ bsPc = "done"
    /\ toPeer = <<Text(START_MEDIA_BUFFERING)>>
    /\ conn = "open"
    /\ bhPc = "done"

\* A step in which STOP_MEDIA_BUFFERING is sent to the peer.
StopSendStep ==
    /\ Len(toPeer') = Len(toPeer) + 1
    /\ toPeer'[Len(toPeer')] = Text(STOP_MEDIA_BUFFERING)

\* C20: the end of the source is found only after wait() has returned, so
\* STOP_MEDIA_BUFFERING waits for the gate like a chunk does: a sender at the
\* head of its loop with the gate closed, and a sender waiting in wait(), send
\* nothing; STOP_MEDIA_BUFFERING is sent only when the event is set or after
\* set() has released the sender, which MEDIA_XON or the end of the receiving
\* task does.
C20_StopFlowControlled ==
    /\ [][((bsPc = "loop" /\ ~can_send_event) \/ bsPc = "blocked") =>
             toPeer' = toPeer]_vars
    /\ [][StopSendStep => (can_send_event \/ bsPc = "woken")]_vars
    /\ [](bsPc = "woken" => wokenBy \in {"xon", "teardown"})

\* Both chunks of the source were sent, MEDIA_XOFF is in effect and the sender
\* waits at the gate: STOP_MEDIA_BUFFERING is held back.
C20_Witness ==
    /\ Len(source) = 2 /\ CHUNK_SIZE = 1
    /\ fpos = Len(source)
    /\ Len(BinaryPayloads(toPeer)) = 2
    /\ bsPc = "blocked"
    /\ ~can_send_event
    /\ ~StopSent

---------------------------------------------------------------------------
\* Two concurrent sessions of one server process.
\*
\* websockets runs audio_handler once per accepted connection, all on the same
\* event loop.  What a session works with is local to its handler call: its
\* connection, its event, its file handle, its answer task.  AUDIO_FILE and
\* CHUNK_SIZE are module constants, the same for every session.  The receiving
\* loop takes the messages of the peer in batches (one run handles what has
\* arrived); device I/O and the length of the delay are left out here.

\* The event a session's tasks use: the one its handler call created.
EventOf_Shared(s) == 1

\* can_send_event = asyncio.Event() in audio_handler: one event per session.
EventOf(s) == s

\* "with open(AUDIO_FILE, 'rb') as f" in send_audio_file: one handle, and so
\* one file position, per session.
HandleOf(s) == s

\* "answer_task = None" in websocket_to_alsa: one handle variable per session.
AnswerSlotOf(s) == s

\* The connection state of session s as Send takes it.
ConnOf(s) == IF sOpen[s] THEN "open" ELSE "closed"

\* The flow-control signals of a buffered session's peer, and the texts of a
\* live session's peer.
SessSignals == {Text(MEDIA_XOFF), Text(MEDIA_XON)}
SessLiveTexts == {MEDIA_START}

\* The senders after set() on event e that was cleared: those waiting on it
\* are released.
Released(e, was) ==
    [t \in Sessions |->
        IF EventOf(t) = e /\ sSend[t] = "blocked" /\ ~was THEN "woken"
        ELSE sSend[t]]

\* The peer of session s disconnects.
Sess_PeerClose(s) ==
    /\ sMode # "off"
    /\ sOpen[s]
    /\ sOpen' = [sOpen EXCEPT ![s] = FALSE]
    /\ sActor' = s
    /\ UNCHANGED <<sMode, sOut, sMsgs, sEvent, sRecv, sSend, sPos, sAnswer,
                   sAnswerFor, sStarted, connVars, liveVars, bufVars>>

\* handle_incoming of session s: one run handles the signals that arrived.
Sess_HandleIncoming(s) ==
    /\ sMode = "buf"
    /\ sRecv[s] = "recv"
    /\ sOpen[s]
    /\ sSend[s] # "woken"
    /\ \E k \in 1..(MaxFairMsgs - sMsgs[s]) :
         \E msgs \in SeqsOfLen(SessSignals, k) :
            LET e == EventOf(s) IN
              /\ sEvent' = [sEvent EXCEPT ![e] = GateAfterAll(msgs, sEvent[e])]
              /\ sSend' = IF SetsCleared(msgs, sEvent[e])
                          THEN Released(e, FALSE) ELSE sSend
              /\ sMsgs' = [sMsgs EXCEPT ![s] = @ + k]
    /\ sActor' = s
    /\ UNCHANGED <<sMode, sOpen, sOut, sRecv, sPos, sAnswer, sAnswerFor,
                   sStarted, connVars, liveVars, bufVars>>

\* handle_incoming of session s ends at the disconnect; its finally block
\* sets the event.
Sess_IncomingEnds(s) ==
    /\ sMode = "buf"
    /\ sRecv[s] = "recv"
    /\ ~sOpen[s]
    /\ sSend[s] # "woken"
    /\ sRecv' = [sRecv EXCEPT ![s] = "done"]
    /\ sEvent' = [sEvent EXCEPT ![EventOf(s)] = TRUE]
    /\ sSend' = Released(EventOf(s), sEvent[EventOf(s)])
    /\ sActor' = s
    /\ UNCHANGED <<sMode, sOpen, sOut, sMsgs, sPos, sAnswer, sAnswerFor,
                   sStarted, connVars, liveVars, bufVars>>

\* send_audio_file of session s: first run.
Sess_SenderStart(s) ==
    /\ sMode = "buf"
    /\ sSend[s] = "init"
    /\ sOut' = [sOut EXCEPT ![s] = Send(ConnOf(s), @, Text(START_MEDIA_BUFFERING))]
    /\ sSend' = [sSend EXCEPT ![s] = IF sOpen[s] /\ srcExists THEN "loop"
                                     ELSE "done"]
    /\ sActor' = s
    /\ UNCHANGED <<sMode, sOpen, sMsgs, sEvent, sRecv, sPos, sAnswer,
                   sAnswerFor, sStarted, connVars, liveVars, bufVars>>

\* send_audio_file of session s finds its event cleared and waits.
Sess_SenderBlock(s) ==
    /\ sMode = "buf"
    /\ sSend[s] = "loop"
    /\ ~sEvent[EventOf(s)]
    /\ sSend' = [sSend EXCEPT ![s] = "blocked"]
    /\ sActor' = s
    /\ UNCHANGED <<sMode, sOpen, sOut, sMsgs, sEvent, sRecv, sPos, sAnswer,
                   sAnswerFor, sStarted, connVars, liveVars, bufVars>>

\* send_audio_file of session s: one iteration after wait().
Sess_SenderStep(s) ==
    /\ sMode = "buf"
    /\ sSend[s] \in {"loop", "woken"}
    /\ WaitReturns(sSend[s], sEvent[EventOf(s)])
    /\ LET data == ReadChunk(source, sPos[HandleOf(s)], CHUNK_SIZE) IN
         /\ sPos' = [sPos EXCEPT ![HandleOf(s)] = NextPos(@, data)]
         /\ IF data = <<>>
            THEN /\ sOut' = [sOut EXCEPT
                               ![s] = Send(ConnOf(s), @, Text(STOP_MEDIA_BUFFERING))]
                 /\ sSend' = [sSend EXCEPT ![s] = "done"]
            ELSE /\ sOut' = [sOut EXCEPT ![s] = Send(ConnOf(s), @, Bin(data))]
                 /\ sSend' = [sSend EXCEPT ![s] = IF sOpen[s] THEN "loop"
                                                  ELSE "done"]
    /\ sActor' = s
    /\ UNCHANGED <<sMode, sOpen, sMsgs, sEvent, sRecv, sAnswer, sAnswerFor,
                   sStarted, connVars, liveVars, bufVars>>

\* audio_handler of buffered session s after its first task has ended: the
\* pending task is cancelled; a cancelled handle_incoming sets the event in
\* its finally block.
Sess_HandlerFinish(s) ==
    /\ sMode = "buf"
    /\ sRecv[s] = "done" \/ sSend[s] = "done"
    /\ ~(sRecv[s] = "done" /\ sSend[s] = "done")
    /\ sSend[s] \notin {"init", "woken"}
    /\ sRecv' = [sRecv EXCEPT ![s] = "done"]
    /\ IF sRecv[s] = "recv"
       THEN /\ sEvent' = [sEvent EXCEPT ![EventOf(s)] = TRUE]
            /\ sSend' = [Released(EventOf(s), sEvent[EventOf(s)])
                            EXCEPT ![s] = "done"]
       ELSE /\ sSend' = [sSend EXCEPT ![s] = "done"]
            /\ UNCHANGED sEvent
    /\ sActor' = s
    /\ UNCHANGED <<sMode, sOpen, sOut, sMsgs, sPos, sAnswer, sAnswerFor,
                   sStarted, connVars, liveVars, bufVars>>

\* websocket_to_alsa of live session s receives a text.
Sess_LiveRecv(s) ==
    /\ sMode = "live"
    /\ sRecv[s] = "recv"
    /\ sOpen[s]
    /\ sMsgs[s] < MaxFairMsgs
    /\ sMsgs' = [sMsgs EXCEPT ![s] = @ + 1]
    /\ \E t \in SessLiveTexts :
         /\ sStarted' = [sStarted EXCEPT ![s] = @ \/ StartsWith(t, MEDIA_START)]
         /\ IF ShouldSchedule(t, sAnswer[AnswerSlotOf(s)])
            THEN /\ sAnswer' = [sAnswer EXCEPT ![AnswerSlotOf(s)] = "sleep"]
                 /\ sAnswerFor' = [sAnswerFor EXCEPT ![AnswerSlotOf(s)] = s]
            ELSE UNCHANGED <<sAnswer, sAnswerFor>>
    /\ sActor' = s
    /\ UNCHANGED <<sMode, sOpen, sOut, sEvent, sRecv, sSend, sPos, connVars,
                   liveVars, bufVars>>

\* The answer task in slot a runs after its delay: it sends ANSWER on the
\* connection it was created with.
Sess_AnswerSend(a) ==
    /\ sMode = "live"
    /\ sAnswer[a] = "sleep"
    /\ LET w == sAnswerFor[a] IN
         /\ sOut' = [sOut EXCEPT ![w] = Send(ConnOf(w), @, Text(ANSWER))]
         /\ sAnswer' = [sAnswer EXCEPT ![a] = IF sOpen[w] THEN "sent"
                                              ELSE "failed"]
         /\ sActor' = w
    /\ UNCHANGED <<sMode, sOpen, sMsgs, sEvent, sRecv, sSend, sPos, sAnswerFor,
                   sStarted, connVars, liveVars, bufVars>>

\* websocket_to_alsa of live session s ends at the disconnect; its finally
\* block cancels the answer task its handle names, which ends cancelled.
Sess_LiveEnds(s) ==
    /\ sMode = "live"
    /\ sRecv[s] = "recv"
    /\ ~sOpen[s]
    /\ sRecv' = [sRecv EXCEPT ![s] = "done"]
    /\ sAnswer' = [sAnswer EXCEPT
                     ![AnswerSlotOf(s)] = IF FinallyCancels(@) THEN "cancelled"
                                          ELSE @]
    /\ sActor' = s
    /\ UNCHANGED <<sMode, sOpen, sOut, sMsgs, sEvent, sSend, sPos, sAnswerFor,
                   sStarted, connVars, liveVars, bufVars>>

\* The source of the two-session runs: MaxSrcLen bytes, 1 2 1 2 ...
SessSource == [i \in 1..MaxSrcLen |-> IF i % 2 = 1 THEN 1 ELSE 2]

InitSessions ==
    /\ conn = "closed" /\ inbox = <<>> /\ toPeer = <<>> /\ peerSent = 0
    /\ LiveOff
    /\ bhPc = "off" /\ brPc = "off" /\ bsPc = "off"
    /\ can_send_event = TRUE /\ brCancel = FALSE /\ bsCancel = FALSE
    /\ source = SessSource /\ srcExists = TRUE /\ fpos = 0
    /\ CHUNK_SIZE \in 1..MaxChunk
    /\ wokenBy = "none"
    /\ sMode \in {"live", "buf"}
    /\ sOpen = [s \in Sessions |-> TRUE]
    /\ sOut = [s \in Sessions |-> <<>>]
    /\ sMsgs = [s \in Sessions |-> 0]
    /\ sEvent = [s \in Sessions |-> TRUE]
    /\ sRecv = [s \in Sessions |-> "recv"]
    /\ sSend = [s \in Sessions |-> IF sMode = "buf" THEN "init" ELSE "off"]
    /\ sPos = [s \in Sessions |-> 0]
    /\ sAnswer = [s \in Sessions |-> "none"]
    /\ sAnswerFor = [s \in Sessions |-> 0]
    /\ sStarted = [s \in Sessions |-> FALSE]
    /\ sActor = 0

NextSessions ==
    \E s \in Sessions :
        \/ Sess_PeerClose(s)
        \/ Sess_HandleIncoming(s)
        \/ Sess_IncomingEnds(s)
        \/ Sess_SenderStart(s)
        \/ Sess_SenderBlock(s)
        \/ Sess_SenderStep(s)
        \/ Sess_HandlerFinish(s)
        \/ Sess_LiveRecv(s)
        \/ Sess_AnswerSend(s)
        \/ Sess_LiveEnds(s)

SpecSessions == InitSessions /\ [][NextSessions]_vars

\* What belongs to session t: its connection, its event, its file position,
\* its tasks and what was sent to its peer.
Footprint(t) ==
    <<sOpen[t], sMsgs[t], sEvent[EventOf(t)], sPos[HandleOf(t)], sOut[t],
      sSend[t], sRecv[t], sAnswer[AnswerSlotOf(t)], sStarted[t]>>

\* C17: sessions are independent.  A step of one session (a signal handled, a
\* chunk sent, a disconnect, a teardown, an answer scheduled, sent or
\* cancelled) leaves everything of the other session as it was: its flow
\* gate, its file position, its tasks, its answer task and what was sent to
\* its peer.  Each buffered session sends the chunks of the source in order
\* from the first, whatever the other session does, and a live session gets
\* an answer task, and ANSWER, only after its own MEDIA_START.
C17_SessionsIndependent ==
    /\ [][\A t \in Sessions : t # sActor' => Footprint(t)' = Footprint(t)]_vars
    /\ [](\A s \in Sessions :
            LET sent == BinaryPayloads(sOut[s]) IN
              \A i \in 1..Len(sent) :
                 sent[i] = SourceChunk(source, CHUNK_SIZE, i))
    /\ [](\A s \in Sessions :
            /\ sAnswer[AnswerSlotOf(s)] # "none" =>
                  (sStarted[s] /\ sAnswerFor[AnswerSlotOf(s)] = s)
            /\ (\E i \in 1..Len(sOut[s]) : sOut[s][i] = Text(ANSWER)) =>
                  sStarted[s])

\* Session 1 was paused by MEDIA_XOFF before its first chunk and waits at its
\* closed gate, while session 2 has sent the whole source and
\* STOP_MEDIA_BUFFERING through its open gate.
C17_Witness ==
    /\ sMode = "buf"
    /\ sSend[1] = "blocked" /\ ~sEvent[1]
    /\ sOut[1] = <<Text(START_MEDIA_BUFFERING)>>
    /\ sSend[2] = "done" /\ sEvent[2] /\ sRecv[2] = "recv"
    /\ Concat(BinaryPayloads(sOut[2])) = source
    /\ sOut[2][Len(sOut[2])] = Text(STOP_MEDIA_BUFFERING)

=============================================================================
